---- MODULE Spec2Model ----
(***************************************************************************)
(* Retail analytics copilot: the batch driver (run_agent_hybrid.main), the *)
(* LangGraph state machine (agent/graph_hybrid.py), the SQL gateway        *)
(* (agent/tools/sqlite_tool.py) and the retriever (agent/rag/retrieval.py).*)
(* Text is modelled as sequences of one-character strings (labels) or of   *)
(* word tokens (SQL); Python's None is the string "None".  The four        *)
(* prediction ports, the database and the BM25 scorer are external: each   *)
(* call draws its outcome, a fault included, from a small set.             *)
(***************************************************************************)
EXTENDS Integers, Sequences, FiniteSets, TLC

VARIABLES
    lines,      \* the input file: one entry per line
    questions,  \* main: the list of questions built by the loader
    qi,         \* main: position of the for-loop over `questions`
    pc,         \* control point of main / the graph node about to run
    state,      \* the AgentState of the request in flight
    exc,        \* message of the exception propagating out of app.invoke
    results,    \* main: the list of results
    out,        \* the output file: "None" until written, then its records
    retriever,  \* the module global _RETRIEVER_INSTANCE
    runs,       \* history: how often each node ran in the request in flight
    attempts,   \* history: the error of each Executor run of the request in flight
    first_ok,   \* history: the first execution of the request without an error
    raw_label,  \* history: what the classification port just returned to Router
    calls,      \* history: the latest calls of the other ports and of the gateway
    search      \* an index under test and the searches run on it (SearchSpec)

vars == <<lines, questions, qi, pc, state, exc, results, out, retriever,
          runs, attempts, first_ok, raw_label, calls, search>>

None == "None"

(* ------------------------------ bounds --------------------------------- *)

MaxBatch == 2
MaxChunks == 2
MaxK == 3
MaxCalls == 2

(* ------------------------- program constants --------------------------- *)

RepairBudget == 2
RetrieverK == 1
ConfHigh == 8
ConfLow == 2
ConfZero == 0
TruncLimit == 20

(* ------------------------------ text ----------------------------------- *)

Str_hybrid == <<"h", "y", "b", "r", "i", "d">>
Str_sql == <<"s", "q", "l">>

UpperLower ==
    [c \in {"H", "Y", "B", "R", "I", "D", "S", "Q", "L", "A", "G"} |->
        CASE c = "H" -> "h" [] c = "Y" -> "y" [] c = "B" -> "b"
          [] c = "R" -> "r" [] c = "I" -> "i" [] c = "D" -> "d"
          [] c = "S" -> "s" [] c = "Q" -> "q" [] c = "L" -> "l"
          [] c = "A" -> "a" [] c = "G" -> "g"]

\* str.lower()
Lower(s) ==
    [i \in 1..Len(s) |-> IF s[i] \in DOMAIN UpperLower THEN UpperLower[s[i]] ELSE s[i]]

RECURSIVE LStrip(_)
LStrip(s) ==
    IF s # <<>> /\ Head(s) = " " THEN LStrip(Tail(s)) ELSE s

RECURSIVE RStrip(_)
RStrip(s) ==
    IF s # <<>> /\ s[Len(s)] = " " THEN RStrip(SubSeq(s, 1, Len(s) - 1)) ELSE s

\* str.strip()
Strip(s) == RStrip(LStrip(s))

\* Python's `sub in s`
Contains(sub, s) ==
    \E i \in 0..(Len(s) - Len(sub)) : SubSeq(s, i + 1, i + Len(sub)) = sub

(* ------------------------ classification port -------------------------- *)

\* Labels the classification port may return (pred.classification).
RawLabels ==
    { <<"s", "q", "l">>,
      <<"S", "Q", "L">>,
      <<"r", "a", "g">>,
      <<" ", "H", "y", "b", "r", "i", "d", " ">>,
      <<"s", "q", "l", "/", "h", "y", "b", "r", "i", "d">>,
      <<"n", "o", "S", "q", "l">>,
      <<"h", "y", "b", "r", "i">>,
      <<>> }

\* A port call either raises (fault) or returns a value.
PortFault == [fault |-> TRUE, value |-> <<>>]
PortValue(v) == [fault |-> FALSE, value |-> v]

\* router_node's normalisation of a returned label
RouterSwapped(label) ==
    LET cls == Strip(Lower(label))
    IN  IF Contains(Str_sql, cls) THEN "sql"
        ELSE IF Contains(Str_hybrid, cls) THEN "hybrid"
        ELSE "rag"

Normalize(label) ==
    LET cls == Strip(Lower(label))
    IN  IF Contains(Str_hybrid, cls) THEN "hybrid"
        ELSE IF Contains(Str_sql, cls) THEN "sql"
        ELSE "rag"

ClassifyNoFallback(outcome) ==
    IF outcome.fault THEN None ELSE Normalize(outcome.value)

\* router_node: the port's outcome is a label or a fault
Classify(outcome) ==
    IF outcome.fault THEN "hybrid" ELSE Normalize(outcome.value)

(* ------------------------------ SQL text ------------------------------- *)

\* What the generation port may return in pred.sql_query (word tokens; a
\* code fence is one token: "<fence-sql>" is the opening fence with its
\* language tag, "<fence>" the bare fence; " " is whitespace).
RawSqls ==
    { <<"<fence-sql>", "SELECT", "a", "<fence>">>,
      <<" ", "update", "b", " ">>,
      <<"<fence>", "<fence>">> }

LowerWord(t) ==
    IF t = "SELECT" THEN "select" ELSE IF t = "UPDATE" THEN "update" ELSE t

IsFence(t) == t \in {"<fence-sql>", "<fence>"}

RECURSIVE DropFences(_)
DropFences(s) ==
    IF s = <<>> THEN <<>>
    ELSE IF IsFence(Head(s)) THEN DropFences(Tail(s))
    ELSE <<Head(s)>> \o DropFences(Tail(s))

\* sql_generator_node: raw_sql.strip(), both replace calls, strip()
CleanSql(raw) == Strip(DropFences(Strip(raw)))

\* execute_sql: query.strip().lower().startswith("select")
IsSelect(query) ==
    LET q == Strip(query)
    IN  q # <<>> /\ LowerWord(Head(q)) = "select"

(* ----------------------------- SQL gateway ----------------------------- *)

ErrTexts == {"syntax error", "no such table"}
\* Result sets: none, one row, one row more than the synthesizer's limit.
RowSets == {<<>>, <<1>>, [i \in 1..(TruncLimit + 1) |-> i]}

\* What the database does with one call: the connection cannot be opened,
\* the statement fails with a message, or it succeeds (with these rows when
\* it is a query).
DbOutcomes ==
    {[kind |-> "connfault", error |-> None, rows |-> <<>>]}
    \cup {[kind |-> "error", error |-> e, rows |-> <<>>] : e \in ErrTexts}
    \cup {[kind |-> "ok", error |-> None, rows |-> r] : r \in RowSets}

\* sqlite runs an empty statement as a no-op: it cannot fail.
DbFails(query, db) == db.kind = "error" /\ Strip(query) # <<>>

ExecuteSqlLeaksOnFault(query, db) ==
    IF db.kind = "connfault"
    THEN [raised |-> TRUE, results |-> <<>>, columns |-> <<>>, error |-> None,
          path |-> "raised", opened |-> 0, closed |-> 0]
    ELSE IF DbFails(query, db)
    THEN [raised |-> FALSE, results |-> <<>>, columns |-> <<>>, error |-> db.error,
          path |-> "fault", opened |-> 1, closed |-> 0]
    ELSE IF IsSelect(query)
    THEN [raised |-> FALSE, results |-> db.rows, columns |-> <<"c">>, error |-> None,
          path |-> "select", opened |-> 1, closed |-> 1]
    ELSE [raised |-> FALSE, results |-> <<>>, columns |-> <<>>, error |-> None,
          path |-> "commit", opened |-> 1, closed |-> 1]

\* SQLiteTool.execute_sql.  `path` names the way the call ended; `opened`
\* and `closed` count the connections it opened (_get_connection, before
\* the try) and closed (conn.close() on each of the three return paths).
ExecuteSql(query, db) ==
    IF db.kind = "connfault"
    THEN [raised |-> TRUE, results |-> <<>>, columns |-> <<>>, error |-> None,
          path |-> "raised", opened |-> 0, closed |-> 0]
    ELSE IF DbFails(query, db)
    THEN [raised |-> FALSE, results |-> <<>>, columns |-> <<>>, error |-> db.error,
          path |-> "fault", opened |-> 1, closed |-> 1]
    ELSE IF IsSelect(query)
    THEN [raised |-> FALSE, results |-> db.rows, columns |-> <<"c">>, error |-> None,
          path |-> "select", opened |-> 1, closed |-> 1]
    ELSE [raised |-> FALSE, results |-> <<>>, columns |-> <<>>, error |-> None,
          path |-> "commit", opened |-> 1, closed |-> 1]

(* ------------------------------ retriever ------------------------------ *)

\* The docs directory as found on disk: missing, holding no chunk, or
\* holding MaxChunks chunks.
Corpora ==
    {[present |-> FALSE, n |-> 0]}
    \cup {[present |-> TRUE, n |-> n] : n \in {0, MaxChunks}}

ScoreVals == {0, 1}

BestLastOnTies(scores, left) ==
    CHOOSE i \in left :
        \A j \in left : scores[i] > scores[j] \/ (scores[i] = scores[j] /\ i >= j)

\* The index of the best chunk among `left`: highest score, and the lowest
\* index among equal scores (sorted(..., reverse=True) is stable).
Best(scores, left) ==
    CHOOSE i \in left :
        \A j \in left : scores[i] > scores[j] \/ (scores[i] = scores[j] /\ i <= j)

RECURSIVE Ranked(_, _)
Ranked(scores, left) ==
    IF left = {} THEN <<>>
    ELSE LET b == Best(scores, left)
         IN  <<b>> \o Ranked(scores, left \ {b})

Min(a, b) == IF a < b THEN a ELSE b

\* SimpleRetriever.search on an index of n chunks whose BM25 scores for the
\* query are `scores`
Search(n, scores, k) ==
    IF n = 0 THEN <<>>
    ELSE LET order == Ranked(scores, 1..n)
         IN  [p \in 1..Min(k, n) |-> [id |-> order[p], score |-> scores[order[p]]]]

\* _RETRIEVER_INSTANCE = None; `builds` counts the instances constructed
NoRetriever == [built |-> FALSE, corpus |-> [present |-> FALSE, n |-> 0], builds |-> 0]

GetRetrieverNoCache(r, corpus) ==
    IF corpus.present
    THEN [built |-> TRUE, corpus |-> corpus, builds |-> r.builds + 1]
    ELSE r

\* get_retriever: the global after the call, `corpus` being what the docs
\* directory holds; SimpleRetriever() raises when the directory is missing,
\* and the global then stays None.
GetRetriever(r, corpus) ==
    IF r.built THEN r
    ELSE IF corpus.present
    THEN [built |-> TRUE, corpus |-> corpus, builds |-> r.builds + 1]
    ELSE r

(* ------------------------------- planner ------------------------------- *)

\* main: "constraints": {}
NoConstraints == [k \in {} |-> None]

\* planner_node's fallback
AbsentConstraints ==
    [date_range_start |-> None, date_range_end |-> None,
     kpi_formula |-> None, entities |-> <<>>]

\* Predictions the extraction port may return: all four fields, or a
\* prediction that lacks some or all of them.
PlannerPreds ==
    { [date_range_start |-> "1997-01-01", date_range_end |-> "1997-03-31",
       kpi_formula |-> None, entities |-> <<"Beverages">>],
      [kpi_formula |-> "AOV"],
      [k \in {} |-> None] }

\* getattr(pred, name, default)
Getattr(pred, name, default) ==
    IF name \in DOMAIN pred THEN pred[name] ELSE default

\* PlannerSignature: the output fields
PlannerFields == {"date_range_start", "date_range_end", "kpi_formula", "entities"}

\* How the extraction port call ended: it raised, it returned a prediction
\* that lacks output fields, or it returned all of them.
PlanKind(outcome) ==
    IF outcome.fault THEN "fault"
    ELSE IF DOMAIN outcome.value # PlannerFields THEN "malformed"
    ELSE "value"

PlanConstraintsNoFallback(outcome) ==
    IF outcome.fault THEN NoConstraints
    ELSE [date_range_start |-> Getattr(outcome.value, "date_range_start", None),
          date_range_end |-> Getattr(outcome.value, "date_range_end", None),
          kpi_formula |-> Getattr(outcome.value, "kpi_formula", None),
          entities |-> Getattr(outcome.value, "entities", <<>>)]

\* planner_node: the constraints it stores for a port outcome
PlanConstraints(outcome) ==
    IF outcome.fault THEN AbsentConstraints
    ELSE [date_range_start |-> Getattr(outcome.value, "date_range_start", None),
          date_range_end |-> Getattr(outcome.value, "date_range_end", None),
          kpi_formula |-> Getattr(outcome.value, "kpi_formula", None),
          entities |-> Getattr(outcome.value, "entities", <<>>)]

(* ----------------------------- synthesizer ----------------------------- *)

SynthPreds ==
    { [final_answer |-> "42", citations |-> <<"Products">>] }

SynthError == "Error synthesizing answer: port fault"

\* synthesizer_node: results_str, the size-bounded rendering of the rows
ResultsStr(rows) ==
    IF rows # <<>> /\ Len(rows) > TruncLimit
    THEN [rows |-> SubSeq(rows, 1, TruncLimit), omitted |-> Len(rows) - TruncLimit]
    ELSE [rows |-> rows, omitted |-> 0]

\* synthesizer_node: sql_info, which no later statement reads
SqlInfo(st) == [sql |-> st.sql_query, results |-> ResultsStr(st.sql_results)]

\* synthesizer_node: the keyword arguments of the synthesis port call;
\* sql_result is str(state.get("sql_results", []))
SynthInput(st) ==
    [sql_query |-> st.sql_query,
     sql_result |-> [rows |-> st.sql_results, omitted |-> 0],
     retrieved_context |-> [i \in DOMAIN st.retrieved_docs |-> st.retrieved_docs[i].id]]

(* ------------------------------- state --------------------------------- *)

Nodes == {"router", "retriever", "planner", "sql_generator", "executor",
          "repair", "synthesizer"}

\* main: initial_state; the keys the dict lacks read as None
InitialState ==
    [classification |-> None,
     retrieved_docs |-> <<>>,
     constraints |-> NoConstraints,
     schema |-> None,
     sql_query |-> <<>>,
     sql_results |-> <<>>,
     sql_columns |-> <<>>,
     sql_error |-> None,
     final_answer |-> None,
     citations |-> <<>>,
     repair_count |-> 0,
     repair_feedback |-> None]

NoRuns == [n \in Nodes |-> 0]

NoExecution == [n |-> 0, sql |-> <<>>, results |-> <<>>]

\* No port beyond the classification port and no gateway call yet.  plan:
\* how the extraction port call ended; gen: whether the generation port was
\* called and with which constraints description; synth: whether the
\* synthesis port was called, whether it raised, and its sql_result
\* argument; gateway: how the last execute_sql call ended; conns: the
\* connections execute_sql has opened and not closed.
NoCalls ==
    [plan |-> "none",
     gen |-> [called |-> FALSE, base |-> NoConstraints, suffix |-> <<>>],
     synth |-> [called |-> FALSE, fault |-> FALSE,
                sql_result |-> [rows |-> <<>>, omitted |-> 0]],
     gateway |-> "none",
     conns |-> 0]

\* No index under test.
NoSearch == [n |-> 0, scores |-> <<>>, k |-> RetrieverK, log |-> <<>>]

\* The input file: each line is a well-formed question object, a blank
\* line, or a JSON object without the "question" key.
LineKinds == {"ok", "blank", "noquestion"}

Init ==
    /\ lines \in UNION {[1..n -> LineKinds] : n \in 0..MaxBatch}
    /\ questions = <<>>
    /\ qi = 0
    /\ pc = "load"
    /\ state = InitialState
    /\ exc = None
    /\ results = <<>>
    /\ out = [written |-> FALSE, records |-> <<>>]
    /\ retriever = NoRetriever
    /\ runs = NoRuns
    /\ attempts = <<>>
    /\ first_ok = NoExecution
    /\ raw_label = PortFault
    /\ calls = NoCalls
    /\ search = NoSearch

(* ------------------------------- main ---------------------------------- *)

RECURSIVE NonBlank(_, _)
NonBlank(ls, i) ==
    IF i > Len(ls) THEN <<>>
    ELSE IF ls[i] = "blank" THEN NonBlank(ls, i + 1)
    ELSE <<i>> \o NonBlank(ls, i + 1)

\* main, step 2: the loader keeps the lines that are not blank; a question
\* is known by the number of its line, which is also its id.
LoadBatch ==
    /\ pc = "load"
    /\ questions' = NonBlank(lines, 1)
    /\ pc' = "loop"
    /\ UNCHANGED <<search, lines, qi, state, exc, results, out, retriever, runs,
                   attempts, first_ok, raw_label, calls>>

\* main, step 4, loop head: build initial_state (outside the try) and enter
\* the graph.  q["question"] on an object without that key raises KeyError,
\* which nothing catches.
NextQuestion ==
    /\ pc = "loop"
    /\ qi < Len(questions)
    /\ qi' = qi + 1
    /\ IF lines[questions[qi + 1]] = "noquestion"
       THEN /\ pc' = "crashed"
            /\ UNCHANGED <<state, runs, attempts, first_ok, raw_label, calls>>
       ELSE /\ pc' = "router"
            /\ state' = InitialState
            /\ runs' = NoRuns
            /\ attempts' = <<>>
            /\ first_ok' = NoExecution
            /\ raw_label' = PortFault
            /\ calls' = [NoCalls EXCEPT !.conns = calls.conns]
    /\ exc' = None
    /\ UNCHANGED <<search, lines, questions, results, out, retriever>>

\* main, step 5
WriteOutput ==
    /\ pc = "loop"
    /\ qi = Len(questions)
    /\ out' = [written |-> TRUE, records |-> results]
    /\ pc' = "done"
    /\ UNCHANGED <<search, lines, questions, qi, state, exc, results, retriever, runs,
                   attempts, first_ok, raw_label, calls>>

ConfidenceByRows(final_state) ==
    IF final_state.sql_results # <<>> THEN ConfHigh ELSE ConfLow

\* main: confidence of a completed request
Confidence(final_state) ==
    IF final_state.sql_error = None THEN ConfHigh ELSE ConfLow

\* main: the try branch after app.invoke returned
Finish ==
    /\ pc = "end"
    /\ results' = Append(results,
          [id |-> questions[qi],
           final_answer |-> state.final_answer,
           sql |-> state.sql_query,
           confidence |-> Confidence(state),
           explanation |-> "Generated based on hybrid analysis of docs and DB.",
           citations |-> state.citations])
    /\ pc' = "loop"
    /\ UNCHANGED <<search, lines, questions, qi, state, exc, out, retriever, runs,
                   attempts, first_ok, raw_label, calls>>

FailUsesIndex ==
    /\ pc = "raised"
    /\ results' = Append(results,
          [id |-> qi,
           final_answer |-> None,
           sql |-> <<>>,
           confidence |-> ConfZero,
           explanation |-> exc,
           citations |-> <<>>])
    /\ pc' = "loop"
    /\ UNCHANGED <<search, lines, questions, qi, state, exc, out, retriever, runs,
                   attempts, first_ok, raw_label, calls>>

\* main: the except branch
Fail ==
    /\ pc = "raised"
    /\ results' = Append(results,
          [id |-> questions[qi],
           final_answer |-> None,
           sql |-> <<>>,
           confidence |-> ConfZero,
           explanation |-> exc,
           citations |-> <<>>])
    /\ pc' = "loop"
    /\ UNCHANGED <<search, lines, questions, qi, state, exc, out, retriever, runs,
                   attempts, first_ok, raw_label, calls>>

(* ------------------------------ the graph ------------------------------ *)

Ran(node) == [runs EXCEPT ![node] = @ + 1]

\* A node raised: the exception leaves app.invoke.
Raise(msg) ==
    /\ pc' = "raised"
    /\ exc' = msg

\* router_node
Router ==
    /\ pc = "router"
    /\ \E outcome \in {PortFault} \cup {PortValue(l) : l \in RawLabels} :
          /\ state' = [state EXCEPT !.classification = Classify(outcome)]
          /\ raw_label' = outcome
    /\ runs' = Ran("router")
    /\ pc' = "router_branch"
    /\ UNCHANGED <<search, lines, questions, qi, exc, results, out, retriever, attempts,
                   first_ok, calls>>

RouterEdgesSqlToRetriever ==
    [rag |-> "retriever", sql |-> "retriever", hybrid |-> "retriever"]

RetrieverEdgesRagToPlanner == [rag |-> "planner", hybrid |-> "planner"]

\* build_graph: the conditional edges after router
RouterEdges == [rag |-> "retriever", sql |-> "sql_generator", hybrid |-> "retriever"]

\* build_graph: the conditional edges after retriever
RetrieverEdges == [rag |-> "synthesizer", hybrid |-> "planner"]

\* A conditional edge: the label picks the next node; a label the mapping
\* lacks raises.
Branch(edges, label) ==
    IF label \in DOMAIN edges
    THEN /\ pc' = edges[label]
         /\ exc' = exc
    ELSE Raise("KeyError")

RouterBranch ==
    /\ pc = "router_branch"
    /\ Branch(RouterEdges, state.classification)
    /\ raw_label' = PortFault
    /\ UNCHANGED <<search, lines, questions, qi, state, results, out, retriever, runs,
                   attempts, first_ok, calls>>

\* retriever_node, get_retriever and SimpleRetriever.__init__ included
Retriever ==
    /\ pc = "retriever"
    /\ runs' = Ran("retriever")
    /\ \E corpus \in Corpora :
          LET inst == GetRetriever(retriever, corpus)
          IN  IF ~inst.built
              THEN /\ Raise("FileNotFoundError")
                   /\ UNCHANGED <<state, retriever>>
              ELSE /\ retriever' = inst
                   /\ \E scores \in [1..inst.corpus.n -> ScoreVals] :
                         state' = [state EXCEPT !.retrieved_docs =
                                      Search(inst.corpus.n, scores, RetrieverK)]
                   /\ pc' = "retriever_branch"
                   /\ exc' = exc
    /\ UNCHANGED <<search, lines, questions, qi, results, out, attempts, first_ok, raw_label, calls>>

RetrieverBranch ==
    /\ pc = "retriever_branch"
    /\ Branch(RetrieverEdges, state.classification)
    /\ UNCHANGED <<search, lines, questions, qi, state, results, out, retriever, runs,
                   attempts, first_ok, raw_label, calls>>

\* planner_node
Planner ==
    /\ pc = "planner"
    /\ \E outcome \in {PortFault} \cup {PortValue(p) : p \in PlannerPreds} :
          /\ state' = [state EXCEPT !.constraints = PlanConstraints(outcome)]
          /\ calls' = [calls EXCEPT !.plan = PlanKind(outcome)]
    /\ runs' = Ran("planner")
    /\ pc' = "sql_generator"
    /\ UNCHANGED <<search, lines, questions, qi, exc, results, out, retriever, attempts,
                   first_ok, raw_label>>

\* What one run of sql_generator_node meets: get_schema cannot open the
\* database, the generation port raises, the prediction has no sql_query
\* field, or it carries a raw SQL text.
GenOutcomes ==
    {[kind |-> k, raw |-> <<>>] : k \in {"schema_fault", "port_fault", "nofield"}}
    \cup {[kind |-> "sql", raw |-> r] : r \in RawSqls}

SchemaText == "CREATE TABLE Products (...);"

\* Python truth of an Optional[str]
Truthy(s) == s # None /\ s # ""

ConstraintsStrDropsFeedback(st) ==
    [called |-> TRUE, base |-> st.constraints, suffix |-> <<>>]

\* sql_generator_node: the constraints description, str(constraints) and,
\* when repair_feedback is set, the correction instruction after it
ConstraintsStr(st) ==
    [called |-> TRUE,
     base |-> st.constraints,
     suffix |-> IF Truthy(st.repair_feedback)
                THEN <<"PREVIOUS ERROR: ", st.repair_feedback, ". FIX THIS.">>
                ELSE <<>>]

\* sql_generator_node: neither get_schema nor the port call is inside a try
SqlGenerator ==
    /\ pc = "sql_generator"
    /\ runs' = Ran("sql_generator")
    /\ \E g \in GenOutcomes :
          CASE g.kind = "schema_fault" ->
                  /\ Raise("OperationalError")
                  /\ UNCHANGED <<state, calls>>
            [] g.kind = "port_fault" ->
                  /\ Raise("generation port fault")
                  /\ calls' = [calls EXCEPT !.gen = ConstraintsStr(state)]
                  /\ UNCHANGED state
            [] OTHER ->
                  /\ state' = [state EXCEPT
                        !.sql_query = IF g.kind = "sql" THEN CleanSql(g.raw) ELSE <<>>,
                        !.schema = SchemaText]
                  /\ calls' = [calls EXCEPT !.gen = ConstraintsStr(state)]
                  /\ pc' = "executor"
                  /\ exc' = exc
    /\ UNCHANGED <<search, lines, questions, qi, results, out, retriever, attempts,
                   first_ok, raw_label>>

\* executor_node
Executor ==
    /\ pc = "executor"
    /\ runs' = Ran("executor")
    /\ \E db \in DbOutcomes :
          LET r == ExecuteSql(state.sql_query, db)
          IN  IF r.raised
              THEN /\ Raise("OperationalError")
                   /\ calls' = [calls EXCEPT !.gateway = r.path]
                   /\ UNCHANGED <<state, attempts, first_ok>>
              ELSE /\ calls' = [calls EXCEPT
                         !.gateway = r.path,
                         !.conns = calls.conns + r.opened - r.closed]
                   /\ state' = [state EXCEPT !.sql_results = r.results,
                                             !.sql_columns = r.columns,
                                             !.sql_error = r.error]
                   /\ attempts' = Append(attempts, r.error)
                   /\ first_ok' =
                         IF r.error = None /\ first_ok.n = 0
                         THEN [n |-> Len(attempts) + 1, sql |-> state.sql_query,
                               results |-> r.results]
                         ELSE first_ok
                   /\ pc' = "repair_check"
                   /\ exc' = exc
    /\ UNCHANGED <<search, lines, questions, qi, results, out, retriever, raw_label>>

RepairCheckOffByOne(st) ==
    IF Truthy(st.sql_error) /\ st.repair_count <= RepairBudget
    THEN "repair" ELSE "synthesize"

RepairCheckOnEmptyRows(st) ==
    IF (Truthy(st.sql_error) \/ st.sql_results = <<>>) /\ st.repair_count < RepairBudget
    THEN "repair" ELSE "synthesize"

RepairCheckIgnoresError(st) ==
    IF st.repair_count < RepairBudget THEN "repair" ELSE "synthesize"

\* repair_check_node
RepairCheckNode(st) ==
    IF Truthy(st.sql_error) /\ st.repair_count < RepairBudget
    THEN "repair" ELSE "synthesize"

\* build_graph: the conditional edges after executor
ExecutorEdges == [repair |-> "repair", synthesize |-> "synthesizer"]

RepairCheck ==
    /\ pc = "repair_check"
    /\ Branch(ExecutorEdges, RepairCheckNode(state))
    /\ UNCHANGED <<search, lines, questions, qi, state, results, out, retriever, runs,
                   attempts, first_ok, raw_label, calls>>

RepairUpdateGenericFeedback(st) ==
    [st EXCEPT !.repair_count = st.repair_count + 1,
               !.repair_feedback = "Invalid format or empty result"]

RepairUpdateResetsConstraints(st) ==
    [st EXCEPT !.repair_count = st.repair_count + 1,
               !.repair_feedback = IF Truthy(st.sql_error) THEN st.sql_error
                                   ELSE "Invalid format or empty result",
               !.constraints = NoConstraints]

\* repair_node
RepairUpdate(st) ==
    [st EXCEPT !.repair_count = st.repair_count + 1,
               !.repair_feedback = IF Truthy(st.sql_error) THEN st.sql_error
                                   ELSE "Invalid format or empty result"]

Repair ==
    /\ pc = "repair"
    /\ state' = RepairUpdate(state)
    /\ runs' = Ran("repair")
    /\ pc' = "sql_generator"
    /\ UNCHANGED <<search, lines, questions, qi, exc, results, out, retriever, attempts,
                   first_ok, raw_label, calls>>

SynthUpdateSwallows(st, outcome) ==
    IF outcome.fault
    THEN st
    ELSE [st EXCEPT !.final_answer = outcome.value.final_answer,
                    !.citations = outcome.value.citations]

\* synthesizer_node: what it stores for a port outcome
SynthUpdate(st, outcome) ==
    IF outcome.fault
    THEN [st EXCEPT !.final_answer = SynthError, !.citations = <<>>]
    ELSE [st EXCEPT !.final_answer = outcome.value.final_answer,
                    !.citations = outcome.value.citations]

Synthesizer ==
    /\ pc = "synthesizer"
    /\ \E outcome \in {PortFault} \cup {PortValue(p) : p \in SynthPreds} :
          /\ state' = SynthUpdate(state, outcome)
          /\ calls' = [calls EXCEPT !.synth =
                          [called |-> TRUE, fault |-> outcome.fault,
                           sql_result |-> SynthInput(state).sql_result]]
    /\ runs' = Ran("synthesizer")
    /\ pc' = "end"
    /\ UNCHANGED <<search, lines, questions, qi, exc, results, out, retriever, attempts,
                   first_ok, raw_label>>

Next ==
    \/ LoadBatch
    \/ NextQuestion
    \/ WriteOutput
    \/ Finish
    \/ Fail
    \/ Router
    \/ RouterBranch
    \/ Retriever
    \/ RetrieverBranch
    \/ Planner
    \/ SqlGenerator
    \/ Executor
    \/ RepairCheck
    \/ Repair
    \/ Synthesizer

Spec == Init /\ [][Next]_vars

Last(seq) == seq[Len(seq)]

\* The qi-th question has just been answered: its record is the last one.
Recorded == pc = "loop" /\ qi > 0 /\ Len(results) = qi

TypeOK ==
    /\ pc \in {"load", "loop", "router", "router_branch", "retriever",
               "retriever_branch", "planner", "sql_generator", "executor",
               "repair_check", "repair", "synthesizer", "end", "raised",
               "crashed", "done"}
    /\ qi \in 0..Len(questions)
    /\ Len(results) <= Len(questions)

(* ------------------------- search on its own -------------------------- *)

Queries == {"q1", "q2"}

\* An index of n chunks, the BM25 scores of its chunks for each query
\* (bm25.get_scores is a function of the index and the query), and the k
\* the caller passes.
SearchInputs ==
    UNION {[n : {n}, scores : [Queries -> [1..n -> ScoreVals]], k : 1..MaxK,
            log : {<<>>}] : n \in 0..MaxChunks}

SearchInit ==
    /\ search \in SearchInputs
    /\ lines = <<>>
    /\ questions = <<>>
    /\ qi = 0
    /\ pc = "load"
    /\ state = InitialState
    /\ exc = None
    /\ results = <<>>
    /\ out = [written |-> FALSE, records |-> <<>>]
    /\ retriever = NoRetriever
    /\ runs = NoRuns
    /\ attempts = <<>>
    /\ first_ok = NoExecution
    /\ raw_label = PortFault
    /\ calls = NoCalls

\* One call of SimpleRetriever.search(query, k) on the index
SearchCall ==
    /\ Len(search.log) < MaxCalls
    /\ \E q \in Queries :
          search' = [search EXCEPT !.log =
                        Append(@, [query |-> q,
                                   result |-> Search(search.n, search.scores[q], search.k)])]
    /\ UNCHANGED <<lines, questions, qi, pc, state, exc, results, out, retriever,
                   runs, attempts, first_ok, raw_label, calls>>

SearchNext == SearchCall

SearchSpec == SearchInit /\ [][SearchNext]_vars

(* ------------------------------- claims -------------------------------- *)

\* C1: in every reachable state repair_count lies between 0 and the repair
\* budget (2), whatever the executions return.
C1_RepairCountBounded ==
    state.repair_count \in 0..RepairBudget

\* C1 witness: the third generation attempt is about to run with the budget
\* used up, after two executions that both returned an error.
C1_Witness ==
    /\ pc = "sql_generator"
    /\ state.repair_count = RepairBudget
    /\ Len(attempts) = 2
    /\ runs["repair"] = 2

\* Exceptions that are no prediction-port fault: the database or the docs
\* directory cannot be opened, a conditional edge lacks the label.
InfraFaults == {"OperationalError", "FileNotFoundError", "KeyError"}

\* C2: a request runs SQLGenerator at most 3 times and Executor exactly as
\* often; when it entered the SQL stage and every execution returned an
\* error, there were exactly 3 generation attempts, repair_count ended at 2
\* and the request went on through Synthesizer with the last error still in
\* the state.  (Stated for requests that met no infrastructure fault.)
C2_ThreeAttempts ==
    (pc \in {"end", "raised"} /\ exc \notin InfraFaults) =>
        /\ runs["sql_generator"] <= RepairBudget + 1
        /\ runs["executor"] = runs["sql_generator"]
        /\ (runs["sql_generator"] > 0 /\ \A i \in DOMAIN attempts : attempts[i] # None) =>
              /\ runs["sql_generator"] = RepairBudget + 1
              /\ state.repair_count = RepairBudget
              /\ runs["synthesizer"] = 1
              /\ state.sql_error = Last(attempts)

\* C3: whatever the prediction ports return and whichever of their calls
\* faults, the fault does not abort the request: a request leaves the graph
\* only through Synthesizer, with a final_answer in the state.
C3_NoPortFaultAborts ==
    /\ pc = "raised" => exc \in InfraFaults
    /\ pc = "end" => runs["synthesizer"] = 1 /\ state.final_answer # None

\* C4: once a request is classified rag, SQLGenerator, Executor and Repair
\* never run for it, and sql_query, sql_results and repair_count keep their
\* initial values up to and including the terminal state.
C4_RagSkipsSql ==
    state.classification = "rag" =>
        /\ runs["sql_generator"] = 0
        /\ runs["executor"] = 0
        /\ runs["repair"] = 0
        /\ state.sql_query = <<>>
        /\ state.sql_results = <<>>
        /\ state.repair_count = 0

\* C4 witness: a rag request has left the graph through Retriever and
\* Synthesizer.
C4_Witness ==
    /\ pc = "end"
    /\ state.classification = "rag"
    /\ runs["retriever"] = 1
    /\ runs["synthesizer"] = 1
    /\ state.retrieved_docs # <<>>

\* C5: once a request is classified sql, Retriever and Planner never run for
\* it; retrieved_docs stays empty and constraints keeps its initial value.
C5_SqlSkipsRetrieval ==
    state.classification = "sql" =>
        /\ runs["retriever"] = 0
        /\ runs["planner"] = 0
        /\ state.retrieved_docs = <<>>
        /\ state.constraints = NoConstraints

\* C5 witness: a sql request has left the graph after generating and
\* executing SQL.
C5_Witness ==
    /\ pc = "end"
    /\ state.classification = "sql"
    /\ runs["sql_generator"] >= 1
    /\ runs["executor"] >= 1
    /\ runs["synthesizer"] = 1

\* Two characters are the same letter up to case.
SameLetter(c, d) ==
    \/ c = d
    \/ (c \in DOMAIN UpperLower /\ UpperLower[c] = d)
    \/ (d \in DOMAIN UpperLower /\ UpperLower[d] = c)

\* `word` occurs in `label`, case-insensitively.
HasCI(label, word) ==
    \E i \in 0..(Len(label) - Len(word)) :
        \A j \in 1..Len(word) : SameLetter(label[i + j], word[j])

\* The class the interface prescribes for a port outcome.
ExpectedClass(outcome) ==
    IF outcome.fault THEN "hybrid"
    ELSE IF HasCI(outcome.value, Str_hybrid) THEN "hybrid"
    ELSE IF HasCI(outcome.value, Str_sql) THEN "sql"
    ELSE "rag"

\* C6: Router stores hybrid for a label containing "hybrid" in any case,
\* else sql for one containing "sql", else rag, and hybrid when the port
\* faults; the node after Router is Retriever for rag and hybrid and
\* SQLGenerator for sql.
C6_RouterMapping ==
    [][/\ pc' = "router_branch" =>
             /\ state'.classification \in {"rag", "sql", "hybrid"}
             /\ state'.classification = ExpectedClass(raw_label')
       /\ pc = "router_branch" =>
             pc' = IF state.classification = "sql" THEN "sql_generator"
                   ELSE "retriever"]_vars

\* C6 witness: the port returned "sql/hybrid" and Router stored hybrid.
C6_Witness ==
    /\ pc = "router_branch"
    /\ ~raw_label.fault
    /\ raw_label.value = <<"s", "q", "l", "/", "h", "y", "b", "r", "i", "d">>
    /\ state.classification = "hybrid"

\* C7: after an Executor step RepairCheck goes to Repair exactly when the
\* stored sql_error is non-empty and repair_count < 2, and to Synthesizer
\* otherwise (so never after an execution without an error, whatever its
\* rows); RepairCheck changes no field of the state.
C7_RepairCheck ==
    [][pc = "repair_check" =>
          /\ pc' = IF state.sql_error \notin {None, ""} /\ state.repair_count < 2
                   THEN "repair" ELSE "synthesizer"
          /\ state' = state]_vars

\* C7 witness: the empty SQL string was executed, gave no error and no
\* rows, and RepairCheck sent the request to Synthesizer.
C7_Witness ==
    /\ pc = "synthesizer"
    /\ runs["executor"] = 1
    /\ state.sql_query = <<>>
    /\ state.sql_error = None
    /\ state.sql_results = <<>>
    /\ state.repair_count = 0

\* C8: the batch run is never aborted by one question and writes exactly
\* one record per question line of the input, in order, each carrying the
\* id of its line.
C8_OneRecordPerLine ==
    /\ pc # "crashed"
    /\ pc = "done" =>
          /\ out.written
          /\ Len(out.records) = Len(questions)
          /\ \A i \in DOMAIN questions : out.records[i].id = questions[i]

\* C9 (as stated): the confidence of a record is high when no execution on
\* the request's path returned an error, low otherwise, and zero when the
\* request faulted.
C9_ConfidenceNoErrorOnPath ==
    Recorded =>
        IF exc # None THEN results[qi].confidence = ConfZero
        ELSE results[qi].confidence =
                IF \A i \in DOMAIN attempts : attempts[i] = None
                THEN ConfHigh ELSE ConfLow

\* C9 (amended): the confidence of a record is zero, with a null
\* final_answer, when the request faulted; otherwise it is high when the
\* request ran no execution or its last execution returned no error, and
\* low when its last execution returned an error.
C9_ConfidenceLastExecution ==
    Recorded =>
        IF exc # None
        THEN results[qi].confidence = ConfZero /\ results[qi].final_answer = None
        ELSE results[qi].confidence =
                IF attempts = <<>> \/ Last(attempts) = None
                THEN ConfHigh ELSE ConfLow

\* C9 witness: the first execution returned an error, the repaired SQL ran
\* without one, and the record's confidence is high.
C9_Witness ==
    /\ Recorded
    /\ exc = None
    /\ Len(attempts) = 2
    /\ attempts[1] # None
    /\ attempts[2] = None
    /\ results[qi].confidence = ConfHigh

\* C10: when the n-th execution of a request is the first without an error,
\* n is 1, 2 or 3, the n-1 executions before it failed, no execution
\* follows it, the request is not aborted and ends with repair_count = n-1
\* (n-1 Repair steps, none for n = 1); the terminal state holds the SQL
\* text and rows of that execution and no sql_error, and the record's sql
\* is that SQL text.
C10_FirstSuccessEnds ==
    first_ok.n > 0 =>
        /\ pc # "raised"
        /\ first_ok.n \in 1..(RepairBudget + 1)
        /\ Len(attempts) = first_ok.n
        /\ \A i \in 1..(first_ok.n - 1) : attempts[i] # None
        /\ state.repair_count = first_ok.n - 1
        /\ runs["repair"] = first_ok.n - 1
        /\ runs["sql_generator"] = first_ok.n
        /\ state.sql_query = first_ok.sql
        /\ state.sql_results = first_ok.results
        /\ state.sql_error = None
        /\ Recorded => (exc = None /\ results[qi].sql = first_ok.sql)

\* C10 witness: the third attempt was the first to succeed, with rows, and
\* its record has been appended.
C10_Witness ==
    /\ Recorded
    /\ first_ok.n = 3
    /\ first_ok.results # <<>>
    /\ state.repair_count = 2
    /\ results[qi].sql = <<"SELECT", "a">>

\* C11: a Synthesizer step never raises; when the synthesis port faults it
\* stores the diagnostic string as final_answer and an empty citation
\* list; the graph is left for END only from Synthesizer, the request then
\* ends in the try branch of main, and Synthesizer runs at most once per
\* request.
C11_SynthesizerTerminal ==
    [][/\ pc = "synthesizer" =>
             /\ pc' = "end"
             /\ exc' = exc
             /\ calls'.synth.called
             /\ calls'.synth.fault =>
                   /\ state'.final_answer = SynthError
                   /\ state'.citations = <<>>
       /\ (pc' = "end" /\ pc # "end") => pc = "synthesizer"
       /\ pc = "end" => (pc' = "loop" /\ Len(results') = Len(results) + 1
                          /\ Last(results').final_answer = state.final_answer)
       /\ runs'["synthesizer"] <= 1]_vars

\* C11 witness: the synthesis port faulted and the request was recorded
\* with the diagnostic answer.
C11_Witness ==
    /\ Recorded
    /\ exc = None
    /\ calls.synth.fault
    /\ results[qi].final_answer = SynthError
    /\ results[qi].citations = <<>>

\* C12: execute_sql never raises to its caller; on an execution fault it
\* returns no rows, no columns and a non-empty error, and on success no
\* error (rows and columns for a SELECT, neither after the commit of any
\* other statement).
C12_GatewayNeverRaises ==
    /\ calls.gateway # "raised"
    /\ pc = "repair_check" =>
          /\ calls.gateway = "fault" =>
                /\ state.sql_results = <<>>
                /\ state.sql_columns = <<>>
                /\ state.sql_error \notin {None, ""}
          /\ calls.gateway \in {"select", "commit"} => state.sql_error = None
          /\ calls.gateway = "select" <=> IsSelect(state.sql_query) /\ state.sql_error = None
          /\ calls.gateway = "commit" =>
                state.sql_results = <<>> /\ state.sql_columns = <<>>

\* The chunks a result lists.
ResultIds(r) == {r[p].id : p \in DOMAIN r}

\* C13: every search on an index of n chunks with k >= 1 returns
\* min(k, n) results (none when the index has no chunk), each a different
\* chunk with its score, in descending score order with equal scores in
\* chunk order, and no chunk left out would rank before the last one
\* returned; two searches with the same query return the same result.
C13_SearchTopK ==
    /\ \A c \in DOMAIN search.log :
          LET r == search.log[c].result
              sc == search.scores[search.log[c].query]
          IN  /\ Len(r) = (IF search.k < search.n THEN search.k ELSE search.n)
              /\ search.n = 0 => r = <<>>
              /\ Cardinality(ResultIds(r)) = Len(r)
              /\ \A p \in DOMAIN r : r[p].id \in 1..search.n /\ r[p].score = sc[r[p].id]
              /\ \A p \in 1..(Len(r) - 1) :
                    \/ r[p].score > r[p + 1].score
                    \/ (r[p].score = r[p + 1].score /\ r[p].id < r[p + 1].id)
              /\ \A i \in (1..search.n) \ ResultIds(r) :
                    \/ sc[i] < r[Len(r)].score
                    \/ (sc[i] = r[Len(r)].score /\ i > r[Len(r)].id)
    /\ \A c, d \in DOMAIN search.log :
          search.log[c].query = search.log[d].query =>
              search.log[c].result = search.log[d].result

\* C13 witness: the same query was searched twice on an index whose two
\* chunks score equally, and both come back, in chunk order.
C13_Witness ==
    /\ Len(search.log) = 2
    /\ search.log[1].query = search.log[2].query
    /\ Len(search.log[2].result) = 2
    /\ search.log[2].result[1].score = search.log[2].result[2].score
    /\ search.log[2].result[1].id = 1

\* The step is a run of sql_generator_node that reached the generation port.
GenCalled ==
    /\ pc = "sql_generator"
    /\ pc' = "executor" \/ (pc' = "raised" /\ exc' = "generation port fault")

\* C14: each Repair step adds exactly 1 to repair_count and sets
\* repair_feedback to the error text of the execution that just failed;
\* the generation attempt that follows hands the generation port a
\* constraints description that holds that feedback verbatim, and the
\* first generation attempt of a request hands it none.
C14_RepairFeedsGeneration ==
    [][/\ pc = "repair" =>
             /\ state'.repair_count = state.repair_count + 1
             /\ attempts # <<>>
             /\ Last(attempts) = state.sql_error
             /\ state'.repair_feedback = Last(attempts)
             /\ pc' = "sql_generator"
       /\ GenCalled =>
             /\ calls'.gen.called
             /\ runs["sql_generator"] = 0 =>
                   /\ state.repair_count = 0
                   /\ calls'.gen.suffix = <<>>
             /\ runs["sql_generator"] > 0 =>
                   /\ runs["repair"] = runs["sql_generator"]
                   /\ state.repair_feedback = Last(attempts)
                   /\ calls'.gen.suffix =
                         <<"PREVIOUS ERROR: ", Last(attempts), ". FIX THIS.">>]_vars

\* C14 witness: the third generation attempt was handed the error of the
\* second execution, which differs from the error of the first.
C14_Witness ==
    /\ pc = "executor"
    /\ state.repair_count = RepairBudget
    /\ Len(attempts) = 2
    /\ attempts[1] # attempts[2]
    /\ calls.gen.suffix = <<"PREVIOUS ERROR: ", attempts[2], ". FIX THIS.">>

\* C15: the result rows handed to the synthesis port are size-bounded:
\* of a Query Result of more than TruncLimit rows the port gets the first
\* TruncLimit and the number of rows omitted; of a shorter one, every row.
C15_SynthesisInputBounded ==
    calls.synth.called =>
        /\ calls.synth.sql_result = ResultsStr(state.sql_results)
        /\ Len(calls.synth.sql_result.rows) <= TruncLimit

C17_ConstraintsWrittenOnce ==
    [][/\ state'.constraints # state.constraints =>
             \/ pc = "planner" /\ state.constraints = NoConstraints
             \/ pc = "loop"
       /\ pc = "planner" =>
             /\ state.classification = "hybrid"
             /\ runs["planner"] = 0
             /\ state'.constraints # NoConstraints
       /\ state.classification # "hybrid" => state.constraints = NoConstraints
       /\ runs'["planner"] <= 1
       /\ runs'["retriever"] <= 1
       /\ pc = "repair" => pc' = "sql_generator"
       /\ GenCalled =>
             /\ calls'.gen.base = state.constraints
             /\ calls.gen.called => calls'.gen.base = calls.gen.base]_vars

\* C17 witness: a hybrid request whose planner stored a full Constraint
\* Set is at its third generation attempt, after two repairs, and the
\* generation port was handed that same set; retriever and planner ran once.
C17_Witness ==
    /\ pc = "executor"
    /\ state.classification = "hybrid"
    /\ state.repair_count = RepairBudget
    /\ runs["sql_generator"] = RepairBudget + 1
    /\ runs["planner"] = 1
    /\ runs["retriever"] = 1
    /\ state.constraints.date_range_start = "1997-01-01"
    /\ calls.gen.base = state.constraints

C19_NoConnectionLeftOpen ==
    /\ calls.conns = 0
    /\ pc = "repair_check" => calls.gateway \in {"select", "commit", "fault"}

\* C19 witness: the third execution of a request has returned through the
\* fault path, after two faults before it, and no connection is open.
C19_Witness ==
    /\ pc = "repair_check"
    /\ calls.gateway = "fault"
    /\ Len(attempts) = RepairBudget + 1
    /\ calls.conns = 0

\* repair_feedback is present exactly when a repair has run, and is then
\* the error text of the execution that led to the latest repair.
FeedbackIsLatestError(st, errs) ==
    /\ st.repair_feedback # None <=> st.repair_count > 0
    /\ st.repair_count > 0 =>
          /\ Len(errs) >= st.repair_count
          /\ st.repair_feedback = errs[st.repair_count]
          /\ st.repair_feedback \in ErrTexts
          /\ st.repair_feedback # ""
          /\ st.repair_feedback # "Invalid format or empty result"

\* C20: in every state of a request repair_feedback is present if and only
\* if repair_count > 0, and is then the non-empty error text of the failed
\* execution that led to the latest Repair, never the generic fallback
\* text (Repair is entered only with a non-empty sql_error); within a
\* request repair_feedback, once set, is never cleared.
C20_FeedbackIffRepaired ==
    [][/\ FeedbackIsLatestError(state, attempts)
       /\ FeedbackIsLatestError(state', attempts')
       /\ pc = "repair" => Truthy(state.sql_error)
       /\ (state.repair_feedback # None /\ pc # "loop") =>
             state'.repair_feedback # None]_vars

\* C20 witness: after two repairs the third execution succeeded; the
\* feedback is still the error of the second execution, which differs from
\* the error of the first.
C20_Witness ==
    /\ pc = "synthesizer"
    /\ state.repair_count = RepairBudget
    /\ Len(attempts) = RepairBudget + 1
    /\ attempts[1] # attempts[2]
    /\ attempts[3] = None
    /\ state.repair_feedback = attempts[2]

\* C21: every conditional branch finds a mapped target: router_node always
\* stores one of rag, sql, hybrid; no later node changes the
\* classification; when the branch after retriever is taken the
\* classification is rag or hybrid; the branch after executor gets repair
\* or synthesize; so no branch raises for a label its mapping lacks.
C21_BranchesAlwaysMapped ==
    [][/\ pc = "router" => state'.classification \in {"rag", "sql", "hybrid"}
       /\ pc \notin {"router", "loop"} =>
             state'.classification = state.classification
       /\ pc = "router_branch" =>
             /\ state.classification \in DOMAIN RouterEdges
             /\ pc' = RouterEdges[state.classification]
       /\ pc = "retriever_branch" =>
             /\ state.classification \in {"rag", "hybrid"}
             /\ state.classification \in DOMAIN RetrieverEdges
             /\ pc' = RetrieverEdges[state.classification]
       /\ pc = "repair_check" =>
             /\ RepairCheckNode(state) \in DOMAIN ExecutorEdges
             /\ pc' = ExecutorEdges[RepairCheckNode(state)]
       /\ exc' # "KeyError"]_vars

\* C21 witness: a hybrid request went through all three branches (after
\* router, after retriever, and after executor three times, with two
\* repairs) and is at the synthesizer, still classified hybrid.
C21_Witness ==
    /\ pc = "synthesizer"
    /\ state.classification = "hybrid"
    /\ runs["router"] = 1
    /\ runs["retriever"] = 1
    /\ runs["repair"] = RepairBudget
    /\ exc = None

\* The i-th record, in the results list and in the written output, carries
\* the id of the i-th question loaded.
RecordsFollowQuestions ==
    /\ Len(results) <= Len(questions)
    /\ \A i \in DOMAIN results : results[i].id = questions[i]
    /\ out.written => out.records = results

\* C22: the i-th output record carries the id of the i-th input question,
\* whether the request completed or raised; records are only appended, one
\* per request, for the question just processed; and each request enters
\* the graph with a fresh Pipeline State (repair_count 0, no
\* repair_feedback, no retrieved_docs, empty sql_query), whatever the
\* request before it left behind.
C22_OutputFollowsInput ==
    [][/\ RecordsFollowQuestions
       /\ RecordsFollowQuestions'
       /\ results' # results =>
             /\ pc \in {"end", "raised"}
             /\ results' = Append(results, Last(results'))
             /\ Len(results') = qi
             /\ Last(results').id = questions[qi]
             /\ pc = "raised" <=> Last(results').confidence = ConfZero
       /\ pc' = "router" =>
             /\ pc = "loop"
             /\ state' = InitialState
             /\ state'.repair_count = 0
             /\ state'.repair_feedback = None
             /\ state'.retrieved_docs = <<>>
             /\ state'.sql_query = <<>>]_vars

\* C22 witness: a batch of two questions is written out; the first request
\* raised, the second completed after it, and each record has its
\* question's id.
C22_Witness ==
    /\ out.written
    /\ Len(out.records) = 2
    /\ out.records[1].confidence = ConfZero
    /\ out.records[2].confidence = ConfHigh
    /\ out.records[1].id = questions[1]
    /\ out.records[2].id = questions[2]

====
